---- MODULE Spec2Model ----
(***************************************************************************)
(* RealTimeProcessor of src/app.py: an unbounded task queue, a pool of     *)
(* worker threads, the results cache and the statistics dictionary.        *)
(*                                                                         *)
(* Threads.  The class takes no lock of its own.  Every access a worker    *)
(* makes to results_cache and stats is modelled at the grain of one        *)
(* dictionary read or one dictionary write: `d[k] += v` is a read followed *)
(* by a write, with the other threads free to run in between.  queue.Queue *)
(* is internally locked, so put, get and qsize are single steps.  Beside   *)
(* the workers there is one thread calling submit_image and one calling    *)
(* get_stats.  In submit_image the qsize() read of line 193 is taken with  *)
(* the put before it, and the store of stats['queue_size'] is a step of    *)
(* its own, so the value stored may be stale.  In get_stats line 204 is    *)
(* one step and the copy of line 205 another: the behaviours this leaves   *)
(* out are those where get_stats stores, a little later, a length the      *)
(* queue had during the same call.                                         *)
(* get_result is a single dictionary read and is an operator on the state. *)
(*                                                                         *)
(* Stopping.  The class has no shutdown method and never clears            *)
(* is_running itself: Next is the pipeline as the class runs it.  The flag *)
(* the worker loop reads (line 122) is a public attribute; stop_running is *)
(* the embedding application clearing it, and ShutdownSpec is the pipeline *)
(* with that step added.  The loop test is read together with the step     *)
(* that leads back to it (the end of a task, the timeout of the get): it   *)
(* is one read of a flag that only stop_running writes.  The class never   *)
(* puts the None that line 125 tests for either: put_sentinel is the owner *)
(* of the processor putting it, and SentinelSpec the pipeline with it.     *)
(*                                                                         *)
(* Time.  The wall clock is observed only where the code reads it, so it   *)
(* advances at the reads: each read returns some instant not before the    *)
(* last one.  The elapsed time of a Transform (line 148) is the difference *)
(* of two reads the scheduler can stretch at will: any value of Durations. *)
(*                                                                         *)
(* Data.  An image is reduced to whether the Transform raises on it.  A    *)
(* Result keeps image_id, status and processing_time (or error); its other *)
(* keys are functions of the image and of the clock.  The exception of a   *)
(* raising Transform is any of Exceptions, chosen where line 182 takes its *)
(* str.  Identifiers are                                                   *)
(* hashable and tasks are pairs, so the handler of lines 134-136 is never  *)
(* entered.                                                                *)
(***************************************************************************)
EXTENDS Naturals, Integers, Sequences, FiniteSets

(* ----------------------------- bounds ---------------------------------- *)
NumWorkers == 2        \* worker threads started (max_workers; 4 by default)
MaxTasks == 2          \* submit_image calls explored
MaxClock == 2          \* last instant of the wall clock explored
TicksPerMs == 2        \* clock instants per millisecond
MaxDuration == 1       \* longest elapsed time of one Transform

(* ------------------------- program constants --------------------------- *)
maxsize == 0           \* queue.Queue() : capacity 0 means unbounded

Workers == 1..NumWorkers
Durations == 0..MaxDuration
Images == {"good", "bad"}   \* "bad": an array the Transform raises on
CallerIds == {"a"}          \* identifiers a caller may supply

None == [none |-> TRUE]

VARIABLES
  now,               \* time.time(), in clock instants
  processing_queue,  \* self.processing_queue
  results_cache,     \* self.results_cache (a dict: a function on its keys)
  stats,             \* self.stats
  is_running,        \* self.is_running
  wpc, wtask, wptime, wtmp, wavg,   \* per worker: position and locals
  spc, stmp,         \* the thread calling submit_image: position and local
  mpc,               \* the thread calling get_stats: position
  seen,              \* history: the queue sizes since line 204 of that call
  submitted,         \* history: the tasks enqueued, in order
  written,           \* history: serial numbers of tasks whose Result was written
  completed          \* history: tasks finished, and the elapsed time of the successes

vars == <<now, processing_queue, results_cache, stats, is_running,
          wpc, wtask, wptime, wtmp, wavg, spc, stmp, mpc, seen,
          submitted, written, completed>>

wvars == <<wpc, wtask, wptime, wtmp, wavg>>
svars == <<spc, stmp>>
mvars == <<mpc, seen>>

(* ----------------------------- helpers --------------------------------- *)
RECURSIVE Gcd(_, _)
Gcd(a, b) == IF b = 0 THEN a ELSE Gcd(b, a % b)

\* a / b of two non-negative numbers, b > 0, as an exact reduced fraction
TrueDiv(a, b) ==
  LET g == Gcd(a, b) IN [num |-> a \div g, den |-> b \div g]

\* f"img_{int(time.time() * 1000)}": the clock truncated to milliseconds
GeneratedId(t) == [prefix |-> "img_", n |-> t \div TicksPerMs]
SuppliedId(s) == [prefix |-> s, n |-> 0]

\* the Transform (lines 144-146) raises on some inputs
TransformRaises(image_data) == image_data = "bad"

\* a queue built with a capacity of one
PutBlocksBounded(q) == Len(q) >= 1

\* queue.Queue.put blocks only while a bounded queue is full
PutBlocks(q) == maxsize > 0 /\ Len(q) >= maxsize

\* RealTimeProcessor.get_result
get_result(image_id) ==
  IF image_id \in DOMAIN results_cache THEN results_cache[image_id] ELSE None

\* dict item assignment
DictSet(d, k, v) == [x \in DOMAIN d \cup {k} |-> IF x = k THEN v ELSE d[x]]

SuccessResult(image_id, processing_time) ==
  [image_id |-> image_id, status |-> "success",
   processing_time |-> processing_time]

\* the exceptions a Transform can raise: built with a message or with no
\* argument at all
Exceptions == {[args |-> <<>>], [args |-> <<"raised">>]}

\* line 182, str(e): the message, or the empty string of an exception built
\* with no argument
str(e) == IF e.args = <<>> THEN "" ELSE e.args[1]

ErrorResult(image_id, e) ==
  [image_id |-> image_id, status |-> "error", error |-> str(e)]

(* ------------------------------ Init ----------------------------------- *)
Init ==
  /\ now = 0
  /\ processing_queue = <<>>
  /\ results_cache = <<>>
  /\ stats = [processed_images |-> 0, total_processing_time |-> 0,
              average_processing_time |-> TrueDiv(0, 1), queue_size |-> 0,
              errors |-> 0, last_processed |-> None]
  /\ is_running = TRUE
  /\ wpc = [w \in Workers |-> "l124"]
  /\ wtask = [w \in Workers |-> None]
  /\ wptime = [w \in Workers |-> 0]
  /\ wtmp = [w \in Workers |-> 0]
  /\ wavg = [w \in Workers |-> TrueDiv(0, 1)]
  /\ spc = "idle" /\ stmp = 0
  /\ mpc = "idle"
  /\ seen = {}
  /\ submitted = <<>>
  /\ written = {}
  /\ completed = [success |-> 0, error |-> 0, time |-> 0]

(* ------------------------------ the queue ------------------------------ *)
\* the queue changes size while a get_stats call is between its two lines
QueueResized ==
  /\ seen' = IF mpc = "l205" THEN seen \cup {Len(processing_queue')} ELSE seen
  /\ UNCHANGED mpc

(* --------------------------- the wall clock ---------------------------- *)
\* time.time() / datetime.now() returning t
ClockRead(t) == t \in now..MaxClock /\ now' = t

(* ---------------------- _processing_worker ----------------------------- *)
\* line 122, `while self.is_running`, read on the way back to line 124
LoopTest == IF is_running THEN "l124" ELSE "exit"

\* a get that drops a None and goes on waiting for the next entry
worker_get_skip(w) ==
  /\ wpc[w] = "l124"
  /\ processing_queue # <<>>
  /\ processing_queue' = Tail(processing_queue)
  /\ IF Head(processing_queue) = None
       THEN UNCHANGED <<wpc, wtask>>
       ELSE /\ wpc' = [wpc EXCEPT ![w] = "l144"]
            /\ wtask' = [wtask EXCEPT ![w] = Head(processing_queue)]
  /\ QueueResized
  /\ UNCHANGED <<now, results_cache, stats, is_running, wptime, wtmp, wavg,
                 svars, submitted, written, completed>>

\* a get that hands the oldest entry out and leaves it in the queue
worker_get_peek(w) ==
  /\ wpc[w] = "l124"
  /\ processing_queue # <<>>
  /\ IF Head(processing_queue) = None
       THEN /\ wpc' = [wpc EXCEPT ![w] = "exit"]
            /\ UNCHANGED wtask
       ELSE /\ wpc' = [wpc EXCEPT ![w] = "l144"]
            /\ wtask' = [wtask EXCEPT ![w] = Head(processing_queue)]
  /\ UNCHANGED processing_queue
  /\ QueueResized
  /\ UNCHANGED <<now, results_cache, stats, is_running,
                 wptime, wtmp, wavg, svars, submitted, written,
                 completed>>

\* a get that hands out the newest entry of the queue instead of the oldest
worker_get_lifo(w) ==
  /\ wpc[w] = "l124"
  /\ processing_queue # <<>>
  /\ processing_queue' = SubSeq(processing_queue, 1, Len(processing_queue) - 1)
  /\ IF processing_queue[Len(processing_queue)] = None
       THEN /\ wpc' = [wpc EXCEPT ![w] = "exit"]
            /\ UNCHANGED wtask
       ELSE /\ wpc' = [wpc EXCEPT ![w] = "l144"]
            /\ wtask' = [wtask EXCEPT
                           ![w] = processing_queue[Len(processing_queue)]]
  /\ QueueResized
  /\ UNCHANGED <<now, results_cache, stats, is_running, wptime, wtmp, wavg,
                 svars, submitted, written, completed>>

\* lines 124-129: get a task; None breaks the loop
worker_get(w) ==
  /\ wpc[w] = "l124"
  /\ processing_queue # <<>>
  /\ processing_queue' = Tail(processing_queue)
  /\ IF Head(processing_queue) = None
       THEN /\ wpc' = [wpc EXCEPT ![w] = "exit"]
            /\ UNCHANGED wtask
       ELSE /\ wpc' = [wpc EXCEPT ![w] = "l144"]
            /\ wtask' = [wtask EXCEPT ![w] = Head(processing_queue)]
  /\ QueueResized
  /\ UNCHANGED <<now, results_cache, stats, is_running, wptime, wtmp, wavg,
                 svars, submitted, written, completed>>

\* lines 124, 132-133, 122: the get times out on an empty queue and the
\* loop test fails (when it passes the worker is back in the same get)
worker_timeout(w) ==
  /\ wpc[w] = "l124"
  /\ processing_queue = <<>>
  /\ LoopTest = "exit"
  /\ wpc' = [wpc EXCEPT ![w] = "exit"]
  /\ UNCHANGED <<now, processing_queue, results_cache, stats, is_running,
                 wtask, wptime, wtmp, wavg, svars, mvars,
                 submitted, written, completed>>

\* the Transform with no try around it: the raise ends the thread
process_transform_uncaught(w) ==
  /\ wpc[w] = "l144"
  /\ IF TransformRaises(wtask[w].image_data)
       THEN /\ wpc' = [wpc EXCEPT ![w] = "exit"]
            /\ UNCHANGED wptime
       ELSE /\ wpc' = [wpc EXCEPT ![w] = "l162"]
            /\ \E processing_time \in Durations :
                 wptime' = [wptime EXCEPT ![w] = processing_time]
  /\ UNCHANGED <<now, processing_queue, results_cache, stats, is_running,
                 wtask, wtmp, wavg, svars, mvars, submitted, written,
                 completed>>

\* lines 140-160: the Transform, then the elapsed time; or the raise
process_transform(w) ==
  /\ wpc[w] = "l144"
  /\ IF TransformRaises(wtask[w].image_data)
       THEN /\ wpc' = [wpc EXCEPT ![w] = "l178"]
            /\ UNCHANGED wptime
       ELSE /\ wpc' = [wpc EXCEPT ![w] = "l162"]
            /\ \E processing_time \in Durations :
                 wptime' = [wptime EXCEPT ![w] = processing_time]
  /\ UNCHANGED <<now, processing_queue, results_cache, stats, is_running,
                 wtask, wtmp, wavg, svars, mvars, submitted, written, completed>>

\* lines 162-166: self.results_cache[image_id] = {... 'status': 'success'}
process_store_success(w) ==
  /\ wpc[w] = "l162"
  /\ results_cache' = DictSet(results_cache, wtask[w].image_id,
                              SuccessResult(wtask[w].image_id, wptime[w]))
  /\ written' = written \cup {wtask[w].serial}
  /\ wpc' = [wpc EXCEPT ![w] = "l169_load"]
  /\ UNCHANGED <<now, processing_queue, stats, is_running,
                 wtask, wptime, wtmp, wavg, svars, mvars, submitted, completed>>

\* a read of one stats key into the worker's register
StatsLoad(w, from, to, key) ==
  /\ wpc[w] = from
  /\ wtmp' = [wtmp EXCEPT ![w] = stats[key]]
  /\ wpc' = [wpc EXCEPT ![w] = to]
  /\ UNCHANGED <<now, processing_queue, results_cache, stats, is_running,
                 wtask, wptime, wavg, svars, mvars, submitted, written, completed>>

\* a write of one stats key
StatsStore(w, from, to, key, value) ==
  /\ wpc[w] = from
  /\ stats' = [stats EXCEPT ![key] = value]
  /\ wtmp' = [wtmp EXCEPT ![w] = 0]
  /\ wpc' = [wpc EXCEPT ![w] = to]
  /\ UNCHANGED <<now, processing_queue, results_cache, is_running,
                 wtask, wptime, wavg, svars, mvars, submitted, written, completed>>

\* line 169: self.stats['processed_images'] += 1
process_load_processed(w) ==
  StatsLoad(w, "l169_load", "l169_store", "processed_images")
\* the increment applied twice
process_store_processed_twice(w) ==
  StatsStore(w, "l169_store", "l170_load", "processed_images", wtmp[w] + 2)
process_store_processed(w) ==
  StatsStore(w, "l169_store", "l170_load", "processed_images", wtmp[w] + 1)

\* line 170: self.stats['total_processing_time'] += processing_time
process_load_total(w) ==
  StatsLoad(w, "l170_load", "l170_store", "total_processing_time")
process_store_total(w) ==
  StatsStore(w, "l170_store", "l171_total", "total_processing_time",
             wtmp[w] + wptime[w])

\* line 171: average = total / processed: two reads, then a write
process_average_total(w) ==
  StatsLoad(w, "l171_total", "l171_count", "total_processing_time")
process_average_count(w) ==
  /\ wpc[w] = "l171_count"
  /\ wavg' = [wavg EXCEPT ![w] = TrueDiv(wtmp[w], stats.processed_images)]
  /\ wtmp' = [wtmp EXCEPT ![w] = 0]
  /\ wpc' = [wpc EXCEPT ![w] = "l171_store"]
  /\ UNCHANGED <<now, processing_queue, results_cache, stats, is_running,
                 wtask, wptime, svars, mvars, submitted, written, completed>>
process_store_average(w) ==
  /\ wpc[w] = "l171_store"
  /\ stats' = [stats EXCEPT !.average_processing_time = wavg[w]]
  /\ wavg' = [wavg EXCEPT ![w] = TrueDiv(0, 1)]
  /\ wpc' = [wpc EXCEPT ![w] = "l172"]
  /\ UNCHANGED <<now, processing_queue, results_cache, is_running,
                 wtask, wptime, wtmp, svars, mvars, submitted, written,
                 completed>>

\* the task is finished: task_done (line 130) and the loop test (line 122)
WorkerReturn(w) ==
  /\ wpc' = [wpc EXCEPT ![w] = LoopTest]
  /\ wtask' = [wtask EXCEPT ![w] = None]
  /\ wptime' = [wptime EXCEPT ![w] = 0]
  /\ wtmp' = [wtmp EXCEPT ![w] = 0]
  /\ UNCHANGED wavg

\* line 172: self.stats['last_processed'] = datetime.now().isoformat()
process_store_last(w) ==
  /\ wpc[w] = "l172"
  /\ \E t \in 0..MaxClock :
       /\ ClockRead(t)
       /\ stats' = [stats EXCEPT !.last_processed = [iso |-> t]]
  /\ completed' = [completed EXCEPT !.success = @ + 1, !.time = @ + wptime[w]]
  /\ WorkerReturn(w)
  /\ UNCHANGED <<processing_queue, results_cache, is_running,
                 svars, mvars, submitted, written>>

\* the handler that logs the error and stores no Result
process_store_error_dropped(w) ==
  /\ wpc[w] = "l178"
  /\ wpc' = [wpc EXCEPT ![w] = "l185_load"]
  /\ UNCHANGED <<now, processing_queue, results_cache, stats, is_running,
                 wtask, wptime, wtmp, wavg, svars, mvars, submitted, written,
                 completed>>

\* lines 176-184: self.results_cache[image_id] = {... 'status': 'error'}
process_store_error(w) ==
  /\ wpc[w] = "l178"
  /\ \E e \in Exceptions :
       results_cache' = DictSet(results_cache, wtask[w].image_id,
                                ErrorResult(wtask[w].image_id, e))
  /\ written' = written \cup {wtask[w].serial}
  /\ wpc' = [wpc EXCEPT ![w] = "l185_load"]
  /\ UNCHANGED <<now, processing_queue, stats, is_running,
                 wtask, wptime, wtmp, wavg, svars, mvars, submitted, completed>>

\* line 185: self.stats['errors'] += 1
process_load_errors(w) ==
  StatsLoad(w, "l185_load", "l185_store", "errors")

\* the error counted a second time, as the worker's own handler would
process_store_errors_twice(w) ==
  /\ wpc[w] = "l185_store"
  /\ stats' = [stats EXCEPT !.errors = wtmp[w] + 2]
  /\ completed' = [completed EXCEPT !.error = @ + 1]
  /\ WorkerReturn(w)
  /\ UNCHANGED <<now, processing_queue, results_cache, is_running,
                 svars, mvars, submitted, written>>

\* the exception let out of _process_image and of the worker's loop
process_store_errors_reraise(w) ==
  /\ wpc[w] = "l185_store"
  /\ stats' = [stats EXCEPT !.errors = wtmp[w] + 1]
  /\ completed' = [completed EXCEPT !.error = @ + 1]
  /\ wpc' = [wpc EXCEPT ![w] = "exit"]
  /\ wtask' = [wtask EXCEPT ![w] = None]
  /\ wptime' = [wptime EXCEPT ![w] = 0]
  /\ wtmp' = [wtmp EXCEPT ![w] = 0]
  /\ UNCHANGED wavg
  /\ UNCHANGED <<now, processing_queue, results_cache, is_running,
                 svars, mvars, submitted, written>>

process_store_errors(w) ==
  /\ wpc[w] = "l185_store"
  /\ stats' = [stats EXCEPT !.errors = wtmp[w] + 1]
  /\ completed' = [completed EXCEPT !.error = @ + 1]
  /\ WorkerReturn(w)
  /\ UNCHANGED <<now, processing_queue, results_cache, is_running,
                 svars, mvars, submitted, written>>

\* one step of a worker whose loop test passes
worker_step(w) ==
  \/ worker_get(w)
  \/ process_transform(w)
  \/ process_store_success(w)
  \/ process_load_processed(w)
  \/ process_store_processed(w)
  \/ process_load_total(w)
  \/ process_store_total(w)
  \/ process_average_total(w)
  \/ process_average_count(w)
  \/ process_store_average(w)
  \/ process_store_last(w)
  \/ process_store_error(w)
  \/ process_load_errors(w)
  \/ process_store_errors(w)

_processing_worker(w) == worker_step(w) \/ worker_timeout(w)

(* --------------------------- submit_image ------------------------------ *)
\* lines 189-193: pick the identifier, put the task, read qsize()
submit_put(image_data, image_id) ==
  /\ spc = "idle"
  /\ ~PutBlocks(processing_queue)
  /\ \E t \in 0..MaxClock :
       /\ IF image_id = None THEN ClockRead(t) ELSE t = now /\ now' = now
       /\ LET id == IF image_id = None THEN GeneratedId(t) ELSE image_id
          IN /\ processing_queue' =
                  Append(processing_queue,
                         [image_id |-> id, image_data |-> image_data,
                          serial |-> Len(submitted) + 1])
             /\ submitted' =
                  Append(submitted,
                         [image_id |-> id, image_data |-> image_data,
                          generated |-> (image_id = None)])
  /\ stmp' = Len(processing_queue')
  /\ spc' = "l193_store"
  /\ QueueResized
  /\ UNCHANGED <<results_cache, stats, is_running, wvars,
                 written, completed>>

\* lines 193-196: self.stats['queue_size'] = ...; return image_id
submit_return ==
  /\ spc = "l193_store"
  /\ stats' = [stats EXCEPT !.queue_size = stmp]
  /\ spc' = "idle" /\ stmp' = 0
  /\ UNCHANGED <<now, processing_queue, results_cache, is_running,
                 wvars, mvars, submitted, written, completed>>

\* the calls explored: any image, an identifier supplied or left out
submit_call ==
  /\ Len(submitted) < MaxTasks
  /\ \E image_data \in Images :
       \E image_id \in {SuppliedId(s) : s \in CallerIds} \cup {None} :
         submit_put(image_data, image_id)

submit_image == submit_call \/ submit_return

(* ----------------------------- get_stats ------------------------------- *)
\* line 204: self.stats['queue_size'] = self.processing_queue.qsize()
stats_qsize ==
  /\ mpc = "idle"
  /\ stats' = [stats EXCEPT !.queue_size = Len(processing_queue)]
  /\ mpc' = "l205"
  /\ seen' = {Len(processing_queue)}
  /\ UNCHANGED <<now, processing_queue, results_cache, is_running,
                 wvars, svars, submitted, written, completed>>

\* line 205: return self.stats.copy(); the dictionary returned is stats as
\* it stands at this step
stats_copy ==
  /\ mpc = "l205"
  /\ mpc' = "idle"
  /\ seen' = {}
  /\ UNCHANGED <<now, processing_queue, results_cache, stats, is_running,
                 wvars, svars, submitted, written, completed>>

get_stats == stats_qsize \/ stats_copy

(* ------------------- the embedding application's stop ------------------ *)
\* the flag line 122 reads is cleared
stop_running ==
  /\ is_running
  /\ is_running' = FALSE
  /\ UNCHANGED <<now, processing_queue, results_cache, stats,
                 wvars, svars, mvars, submitted, written, completed>>

(* ------------------------------ Next ----------------------------------- *)
\* The pipeline as the class runs it: is_running stays TRUE, so the loop
\* test never fails and worker_timeout is never enabled.
Next ==
  \/ \E w \in Workers : worker_step(w)
  \/ submit_image
  \/ get_stats

Spec == Init /\ [][Next]_vars

\* Submission and processing alone: get_stats writes nothing but
\* stats['queue_size'], which no worker reads.
NextProcessing ==
  \/ \E w \in Workers : worker_step(w)
  \/ submit_image

\* The workers are threads of a live process: none is starved for ever.
LiveSpec ==
  /\ Init
  /\ [][NextProcessing]_vars
  /\ \A w \in Workers : WF_vars(worker_step(w))

\* The pipeline with the application's stop.
NextShutdown ==
  \/ \E w \in Workers : _processing_worker(w)
  \/ submit_image
  \/ get_stats
  \/ stop_running

ShutdownSpec == Init /\ [][NextShutdown]_vars

\* lines 125-126: the owner of the processor puts the None that line 125
\* tests for, at most one per worker thread
Sentinels ==
  Cardinality({i \in 1..Len(processing_queue) : processing_queue[i] = None})
    + Cardinality({w \in Workers : wpc[w] = "exit"})

put_sentinel ==
  /\ Sentinels < NumWorkers
  /\ processing_queue' = Append(processing_queue, None)
  /\ QueueResized
  /\ UNCHANGED <<now, results_cache, stats, is_running, wvars, svars,
                 submitted, written, completed>>

\* Submission and processing with the None entries that end the workers.
NextSentinel ==
  \/ \E w \in Workers : worker_step(w)
  \/ submit_image
  \/ put_sentinel

SentinelSpec == Init /\ [][NextSentinel]_vars

(* ------------------------------ claims --------------------------------- *)
\* a Result as get_result hands it out once the task is finished
Terminal(r) == r # None /\ r.status \in {"success", "error"}

\* every worker is waiting in the get of line 124 and the queue is empty
Quiescent ==
  /\ processing_queue = <<>>
  /\ \A w \in Workers : wpc[w] = "l124"

\* C1: under fair scheduling of the workers every task put by submit_image
\* is eventually processed, so that get_result for its identifier returns
\* a Result of status success or error; and once get_result returns such a
\* Result for an identifier it keeps returning one.
C1_EventuallyTerminal ==
  /\ \A k \in 1..MaxTasks :
       (Len(submitted) >= k) ~>
         (/\ Len(submitted) >= k
          /\ k \in written
          /\ Terminal(get_result(submitted[k].image_id)))
  /\ [][\A id \in DOMAIN results_cache :
          Terminal(results_cache[id]) =>
            id \in DOMAIN results_cache' /\ Terminal(results_cache'[id])]_vars

C1_Witness ==
  /\ Len(submitted) = MaxTasks
  /\ written = 1..MaxTasks
  /\ \A k \in 1..MaxTasks : Terminal(get_result(submitted[k].image_id))

\* C2: once every submitted task has completed successfully and the
\* workers are idle, the dictionary get_stats returns counts every one of
\* them: processed_images is their number, total_processing_time the sum
\* of their durations, errors is 0.
C2_NoLostUpdates ==
  (/\ mpc = "l205"
   /\ Quiescent
   /\ completed.error = 0
   /\ completed.success = Len(submitted))
  => /\ stats.processed_images = completed.success
     /\ stats.total_processing_time = completed.time
     /\ stats.errors = 0

\* C3: every dictionary get_stats returns has average_processing_time equal
\* to total_processing_time / processed_images when processed_images > 0,
\* and to 0 when processed_images is 0.
C3_SnapshotConsistent ==
  mpc = "l205" =>
    stats.average_processing_time =
      IF stats.processed_images > 0
        THEN TrueDiv(stats.total_processing_time, stats.processed_images)
        ELSE TrueDiv(0, 1)

\* C4: no identifier has a Result written under it more than once.
C4_AtMostOneWriter ==
  \A i \in written : \A j \in written :
    submitted[i].image_id = submitted[j].image_id => i = j

\* C5: an entry of results_cache, once present, is never removed and never
\* replaced by a different Result.
C5_AppendOnly ==
  [][\A id \in DOMAIN results_cache :
       id \in DOMAIN results_cache' /\ results_cache'[id] = results_cache[id]]_vars

\* C6: of two tasks with distinct identifiers, one whose Transform raises
\* and one whose Transform succeeds, processed in any interleaving, the
\* first ends with an error Result and the second with a success Result,
\* and errors and processed_images are each 1.
C6_Pair(a, b) ==
  /\ submitted[a].image_id # submitted[b].image_id
  /\ TransformRaises(submitted[a].image_data)
  /\ ~TransformRaises(submitted[b].image_data)

C6_Done == Quiescent /\ Len(submitted) = 2 /\ written = {1, 2}

C6_ErrorIsolation ==
  \A a \in {1, 2} : \A b \in {1, 2} :
    (C6_Done /\ C6_Pair(a, b)) =>
      /\ get_result(submitted[a].image_id).status = "error"
      /\ get_result(submitted[b].image_id).status = "success"
      /\ stats.errors = 1
      /\ stats.processed_images = 1

C6_Witness == C6_Done /\ C6_Pair(1, 2) /\ stats.errors = 1

\* C7: two submit_image calls that supply no identifier obtain distinct
\* identifiers.
C7_GeneratedIdsDistinct ==
  \A i \in 1..Len(submitted) : \A j \in 1..Len(submitted) :
    (i # j /\ submitted[i].generated /\ submitted[j].generated)
      => submitted[i].image_id # submitted[j].image_id

\* C8: submit_image never waits: whatever the queue holds and whatever the
\* workers are doing, a call can put its task, and a call that has put its
\* task can return.
C8_SubmitNeverBlocks ==
  /\ spc = "idle" =>
       \A image_data \in Images :
         \A image_id \in {SuppliedId(s) : s \in CallerIds} \cup {None} :
           ENABLED submit_put(image_data, image_id)
  /\ spc = "l193_store" => ENABLED submit_return

\* two calls have returned and no worker has yet taken either task
C8_Witness ==
  /\ spc = "idle"
  /\ Len(submitted) >= 2
  /\ Len(processing_queue) = Len(submitted)

\* C9: get_result returns either None or a Result of status success or
\* error, and returns None for the identifier of a task a worker has
\* dequeued and is still running the Transform on.
C9_NoIntermediateState ==
  /\ \A id \in DOMAIN results_cache : Terminal(results_cache[id])
  /\ \A w \in Workers :
       wpc[w] = "l144" => get_result(wtask[w].image_id) = None

\* C10: once is_running is cleared, no submit_image call puts a task.
C10_RejectAfterShutdown ==
  [][~is_running =>
       /\ submitted' = submitted
       /\ Len(processing_queue') <= Len(processing_queue)]_vars

\* no worker holds a task
NoTaskInHand == \A w \in Workers : wtask[w] = None

\* C11: once a worker has finished a task, whether its Transform succeeded
\* or raised, stats reflects it: processed_images and errors together count
\* the finished tasks, and last_processed is no longer None.
C11_StatsReflectTask ==
  (NoTaskInHand /\ completed.success + completed.error >= 1)
  => /\ stats.last_processed # None
     /\ stats.processed_images + stats.errors
          = completed.success + completed.error

\* the counters of the stats dictionary that only ever grow in a serial run
CountersGrow ==
  /\ stats'.processed_images >= stats.processed_images
  /\ stats'.errors >= stats.errors
  /\ stats'.total_processing_time >= stats.total_processing_time

\* C12: processed_images, errors and total_processing_time never decrease
\* from one get_stats snapshot to a later one.  stats_copy returns the
\* dictionary as it stands and can be taken before and after any step, so
\* two snapshots show a decrease exactly when some step lowers a counter.
C12_CountersNeverDecrease == [][CountersGrow]_vars

\* the worker leaves the handler of lines 176-185 by writing the Error
\* Result of the task it holds
WritesErrorResult(w) ==
  (wpc[w] = "l178" /\ wpc'[w] # "l178")
  => /\ wpc'[w] = "l185_load"
     /\ \E e \in Exceptions :
          get_result(wtask[w].image_id)' = ErrorResult(wtask[w].image_id, e)

\* C13: a Transform that raises never ends or stalls a worker: no worker
\* thread ever exits, the worker whose Transform raised writes the Error
\* Result and is back in its get, and every task queued behind a failing
\* one is still processed.
C13_FailureKeepsWorker ==
  /\ [](\A w \in Workers : wpc[w] # "exit")
  /\ [][\A w \in Workers : WritesErrorResult(w)]_vars
  /\ \A w \in Workers : (wpc[w] = "l178") ~> (wpc[w] = "l124")
  /\ \A k \in 2..MaxTasks :
       (Len(submitted) >= k /\ TransformRaises(submitted[k - 1].image_data))
         ~> (k \in written /\ Terminal(get_result(submitted[k].image_id)))

C13_Witness ==
  /\ Len(submitted) >= 2
  /\ TransformRaises(submitted[1].image_data)
  /\ completed.error >= 1
  /\ 2 \in written
  /\ \A w \in Workers : wpc[w] = "l124"

\* worker w takes a task out of the queue in this step
Dequeues(w) == wtask[w] = None /\ wtask'[w] # None

\* C14: tasks leave the queue in the order submit_image put them: when a
\* worker dequeues a task, no task put before it is still in the queue.
\* The serial of a task is its position in the order of the puts.
C14_SubmissionOrder ==
  [][\A w \in Workers :
       Dequeues(w) =>
         \A i \in 1..Len(processing_queue) :
           processing_queue[i].serial >= wtask'[w].serial]_vars

\* both tasks were dequeued, by different workers, and are in progress
C14_Witness ==
  \E w1 \in Workers : \E w2 \in Workers \ {w1} :
    /\ wtask[w1] # None /\ wtask[w1].serial = 1
    /\ wtask[w2] # None /\ wtask[w2].serial = 2
    /\ wpc[w1] = "l144"
    /\ wpc[w2] = "l144"

\* the positions of the queue holding the task of serial k
QueuedAt(k) ==
  {i \in 1..Len(processing_queue) : processing_queue[i].serial = k}

\* the workers holding the task of serial k
HeldBy(k) == {w \in Workers : wtask[w] # None /\ wtask[w].serial = k}

\* worker w has not yet stored the Result of the task it holds
BeforeStore(w) == wpc[w] \in {"l144", "l162", "l178"}

\* C15: every task put in the queue is consumed once, by one worker: it is
\* never in the queue and in a worker's hands at once, never in the hands
\* of two workers, never twice in the queue, and once its Result is
\* written it is neither queued nor about to be processed again.
C15_ConsumedOnce ==
  \A k \in 1..Len(submitted) :
    /\ Cardinality(QueuedAt(k)) + Cardinality(HeldBy(k)) <= 1
    /\ k \in written =>
         /\ QueuedAt(k) = {}
         /\ \A w \in HeldBy(k) : ~BeforeStore(w)

\* two workers hold the two tasks at once, one Result already written
C15_Witness ==
  \E w1 \in Workers : \E w2 \in Workers \ {w1} :
    /\ HeldBy(1) = {w1}
    /\ HeldBy(2) = {w2}
    /\ 1 \in written
    /\ BeforeStore(w2)
    /\ processing_queue = <<>>

\* a None leaves the head of the queue in this step
SentinelDequeued ==
  /\ processing_queue # <<>>
  /\ Head(processing_queue) = None
  /\ processing_queue' = Tail(processing_queue)

\* worker w leaves its loop in this step
Exits(w) == wpc[w] # "exit" /\ wpc'[w] = "exit"

\* C16: the worker that dequeues a None leaves its loop, and for good: it
\* holds no task and takes none afterwards, and the step stores no Result
\* and changes nothing in stats.  A None ends one worker only, the one that
\* dequeued it, so the pool has stopped only when each of the workers has
\* exited; a worker that has not is never stuck: it can take the entry at
\* the head of the queue, or go on with the task it holds.
C16_SentinelExit ==
  /\ [][/\ SentinelDequeued =>
            /\ \E w \in Workers :
                 /\ wpc[w] = "l124"
                 /\ Exits(w)
                 /\ \A v \in Workers \ {w} : wpc'[v] = wpc[v]
            /\ UNCHANGED <<results_cache, stats, wtask, written, completed>>
        /\ \A w \in Workers :
             /\ Exits(w) => SentinelDequeued
             /\ wpc[w] = "exit" => wpc'[w] = "exit" /\ wtask'[w] = None]_vars
  /\ [](\A w \in Workers :
         (wpc[w] # "exit" /\ (wpc[w] = "l124" => processing_queue # <<>>))
           => ENABLED worker_step(w))

\* one worker has exited on a None while the other holds a task
C16_Witness ==
  \E w1 \in Workers : \E w2 \in Workers \ {w1} :
    /\ wpc[w1] = "exit"
    /\ wtask[w1] = None
    /\ wtask[w2] # None
    /\ wpc[w2] = "l144"

\* C17: the queue_size of the dictionary get_stats returns is the size the
\* queue had at some instant of that call, between the qsize of line 204
\* and the copy of line 205, whatever submit_image and the workers do
\* meanwhile.
C17_QueueSizeLive == mpc = "l205" => stats.queue_size \in seen

\* C18: when the one task submitted has a Transform that raises, whatever
\* the exception and also when it was built with no message, the Result
\* stored has status error and a non-empty error message, errors is 1 and
\* processed_images is 0.
C18_ErrorResultHasMessage ==
  (/\ Len(submitted) = 1
   /\ TransformRaises(submitted[1].image_data)
   /\ completed.error = 1)
  => /\ get_result(submitted[1].image_id).status = "error"
     /\ get_result(submitted[1].image_id).error # ""
     /\ stats.errors = 1
     /\ stats.processed_images = 0

\* no two tasks were submitted under the same identifier
DistinctIds ==
  \A i \in 1..Len(submitted) : \A j \in 1..Len(submitted) :
    submitted[i].image_id = submitted[j].image_id => i = j

\* the workers holding a task whose Result is not stored yet
InFlight == {w \in Workers : wtask[w] # None /\ BeforeStore(w)}

\* the tasks of the queue, by serial
Queued == {processing_queue[i].serial : i \in 1..Len(processing_queue)}

\* C19: while the identifiers submitted are distinct, every submitted task
\* is in exactly one place: waiting in the queue, in the hands of one worker
\* that is processing it, or stored as a Result in results_cache; so the
\* number submitted is queued + in flight + stored, with at most one task
\* in flight per worker.
C19_Conservation ==
  DistinctIds =>
    /\ Len(submitted) = Len(processing_queue) + Cardinality(InFlight)
                          + Cardinality(DOMAIN results_cache)
    /\ Cardinality(InFlight) <= NumWorkers
    /\ \A k \in 1..Len(submitted) :
         \/ /\ k \in Queued
            /\ \A w \in InFlight : wtask[w].serial # k
            /\ submitted[k].image_id \notin DOMAIN results_cache
         \/ /\ k \notin Queued
            /\ Cardinality({w \in InFlight : wtask[w].serial = k}) = 1
            /\ submitted[k].image_id \notin DOMAIN results_cache
         \/ /\ k \notin Queued
            /\ \A w \in InFlight : wtask[w].serial # k
            /\ submitted[k].image_id \in DOMAIN results_cache

\* one task is stored and the other is in flight
C19_Witness ==
  /\ DistinctIds
  /\ Len(submitted) = 2
  /\ Cardinality(DOMAIN results_cache) = 1
  /\ Cardinality(InFlight) = 1
  /\ processing_queue = <<>>

\* the number of tasks the workers have taken out of the queue so far
Dequeued == Len(submitted) - Len(processing_queue)

\* the number of Results of status success written so far
SuccessWrites ==
  Cardinality({k \in written : ~TransformRaises(submitted[k].image_data)})

\* C20: the counters never run ahead of the work done: processed_images +
\* errors is at most the number of tasks dequeued, and processed_images is
\* at most the number of success Results written.
C20_NeverOverCount ==
  /\ stats.processed_images + stats.errors <= Dequeued
  /\ stats.processed_images <= SuccessWrites

\* both tasks are counted, one as processed and one as an error
C20_Witness ==
  /\ Dequeued = 2
  /\ stats.processed_images = 1
  /\ stats.errors = 1
  /\ SuccessWrites = 1

====
